---- MODULE Spec2Model ----
(***************************************************************************)
(* Todo List Store of adobeio-samples-todoapp.                             *)
(*                                                                         *)
(* Two implementations of the aggregate-document store are modelled:       *)
(*   - the local Express server (server.js), whose POST /todolist handler  *)
(*     is synchronous and persists to one JSON file;                       *)
(*   - the Runtime action (actions/todolist/index.js), which is async and  *)
(*     persists to the key `todolist` of aio-lib-state.                    *)
(* Spec runs one of them, one whole request per step.  SpecConc runs       *)
(* concurrent requests: invocations of the Runtime action, split at its    *)
(* awaits, and handlers of the server, each one step.  SpecFault is Spec   *)
(* with saves that fail or are cut off and a data file overwritten from    *)
(* outside the server.  SpecStore runs writeStore and readStore on their   *)
(* own.  SpecBoth sends every request to both implementations.             *)
(*                                                                         *)
(* SpecItems is the per-item-key variant (unnamed/part_000 and             *)
(* actions/todo/index.js), and SpecUI the App component on the server.     *)
(***************************************************************************)
EXTENDS Integers, Sequences, FiniteSets, TLC

\* ------------------------------------------------------------------------
\* Bounds and input universes
\* ------------------------------------------------------------------------

\* defaults.json MAX_TODO_ITEMS (10 in the repository); a configuration
\* value, scaled down here.
MAX_TODO_ITEMS == 3

\* number of concurrent invocations of the Runtime action in SpecConc
NumProcs == 2

\* JavaScript's undefined (an absent request field, an absent object field)
Undefined == "undefined"

Names == {"a", "b"}

\* more ids than fit into a list, so that a full list meets a new id
Ids == {"1", "2", "3", "4"}

\* a todo item {id, title}; the remaining fields are opaque to the store
Todo(id, title) == [id |-> id, title |-> title]

\* the todos callers send: one per id, and a second value for id "1"
TodoInputs == {Todo(id, "x") : id \in Ids} \cup {Todo("1", "y")}

\* the value of `todo` in a request that carries none
NoTodo == [id |-> Undefined, title |-> Undefined]

\* the names of the requests: a name, none, or the empty string
NameInputs == Names \cup {Undefined, ""}

\* a todo that carries no id: { title: 'x' }
TodoWithoutId == Todo(Undefined, "x")

\* the (name, todo) pairs of the update requests: list "a" is sent every
\* todo that has an id, the other names are sent a todo without an id, and
\* every name is sent a request without a todo
UpdateInputs ==
  ({"a"} \X TodoInputs)
  \cup ((NameInputs \ {"a"}) \X {TodoWithoutId})
  \cup (NameInputs \X {NoTodo})

\* JavaScript truthiness of a string-or-undefined value: !v
Falsy(v) == v \in {Undefined, ""}

\* ------------------------------------------------------------------------
\* Array helpers (JavaScript arrays as 1-based sequences)
\* ------------------------------------------------------------------------

\* Array.prototype.unshift
unshift(arr, x) == <<x>> \o arr

\* the least index whose element is in the set, 1-based; 0 stands for the
\* -1 of findIndex and for the undefined of find
firstIndex(hits) == IF hits = {} THEN 0 ELSE CHOOSE i \in hits : \A j \in hits : i <= j

\* todoList.find((l) => l.name === name), as the index of the list found
findList(todoList, name) ==
  firstIndex({i \in 1..Len(todoList) : todoList[i].name = name})

\* list.todos.findIndex((t) => t.id === todo.id)
findTodo(todos, todo) ==
  firstIndex({i \in 1..Len(todos) : todos[i].id = todo.id})

\* the lists whose name differs: (l) => l.name !== name kept
filterName(todoList, name) == SelectSeq(todoList, LAMBDA l : l.name # name)

\* the todos without those of an id
filterId(todos, id) == SelectSeq(todos, LAMBDA t : t.id # id)

\* ------------------------------------------------------------------------
\* JSON text: the file content is a sequence of tokens, punctuation P(c)
\* and string literals S(s); whitespace (the indent of 2) carries nothing
\* ------------------------------------------------------------------------

P(c) == [k |-> "p", v |-> c]

S(s) == [k |-> "s", v |-> s]

RECURSIVE joinComma(_)
joinComma(parts) ==
  IF parts = <<>> THEN <<>>
  ELSE IF Len(parts) = 1 THEN parts[1]
  ELSE parts[1] \o <<P(",")>> \o joinComma(Tail(parts))

member(key, valueToks) == <<S(key), P(":")>> \o valueToks

\* stringifyTodo that writes the id only
stringifyTodo_idOnly(t) ==
  <<P("{")>>
  \o (IF t.id = Undefined THEN <<>> ELSE member("id", <<S(t.id)>>))
  \o <<P("}")>>

\* JSON.stringify of a todo item: a property whose value is undefined is
\* left out
stringifyTodo(t) ==
  LET fields == (IF t.id = Undefined THEN <<>> ELSE <<member("id", <<S(t.id)>>)>>)
                \o (IF t.title = Undefined THEN <<>> ELSE <<member("title", <<S(t.title)>>)>>)
  IN <<P("{")>> \o joinComma(fields) \o <<P("}")>>

stringifyTodos(todos) ==
  <<P("[")>> \o joinComma([i \in 1..Len(todos) |-> stringifyTodo(todos[i])]) \o <<P("]")>>

stringifyList(l) ==
  <<P("{")>>
  \o joinComma(<<member("name", <<S(l.name)>>), member("todos", stringifyTodos(l.todos))>>)
  \o <<P("}")>>

\* JSON.stringify(todoList, null, 2)
JSON_stringify(todoList) ==
  <<P("[")>> \o joinComma([i \in 1..Len(todoList) |-> stringifyList(todoList[i])]) \o <<P("]")>>

tokAt(toks, i) == IF i \in 1..Len(toks) THEN toks[i] ELSE P("<eof>")

ParseFail == [ok |-> FALSE, next |-> 0]

\* an item with one member set
withMember(acc, key, val) ==
  IF key = "id" THEN [acc EXCEPT !.id = val] ELSE [acc EXCEPT !.title = val]

\* the members of an item object after its "{", up to and including "}"
RECURSIVE parseMembers(_, _, _)
membersAfter(toks, i, acc) ==
  IF tokAt(toks, i) = P(",") THEN parseMembers(toks, i + 1, acc)
  ELSE IF tokAt(toks, i) = P("}") THEN [ok |-> TRUE, next |-> i + 1, val |-> acc]
  ELSE ParseFail

parseMembers(toks, i, acc) ==
  IF tokAt(toks, i).k = "s" /\ tokAt(toks, i + 1) = P(":") /\ tokAt(toks, i + 2).k = "s"
     /\ tokAt(toks, i).v \in {"id", "title"}
  THEN membersAfter(toks, i + 3, withMember(acc, tokAt(toks, i).v, tokAt(toks, i + 2).v))
  ELSE ParseFail

parseTodo(toks, i) ==
  IF tokAt(toks, i) # P("{") THEN ParseFail
  ELSE IF tokAt(toks, i + 1) = P("}") THEN [ok |-> TRUE, next |-> i + 2, val |-> NoTodo]
  ELSE parseMembers(toks, i + 1, NoTodo)

\* the elements of the todos array after its "[", up to and including "]"
RECURSIVE parseTodosRest(_, _, _)
todosAfter(toks, acc, t) ==
  IF ~t.ok THEN ParseFail
  ELSE IF tokAt(toks, t.next) = P(",") THEN parseTodosRest(toks, t.next + 1, Append(acc, t.val))
  ELSE IF tokAt(toks, t.next) = P("]")
       THEN [ok |-> TRUE, next |-> t.next + 1, val |-> Append(acc, t.val)]
  ELSE ParseFail

parseTodosRest(toks, i, acc) == todosAfter(toks, acc, parseTodo(toks, i))

parseTodos(toks, i) ==
  IF tokAt(toks, i) # P("[") THEN ParseFail
  ELSE IF tokAt(toks, i + 1) = P("]") THEN [ok |-> TRUE, next |-> i + 2, val |-> <<>>]
  ELSE parseTodosRest(toks, i + 1, <<>>)

\* the end of a list object, after its todos
listAfter(toks, name, ts) ==
  IF ts.ok /\ tokAt(toks, ts.next) = P("}")
  THEN [ok |-> TRUE, next |-> ts.next + 1, val |-> [name |-> name, todos |-> ts.val]]
  ELSE ParseFail

parseList(toks, i) ==
  IF tokAt(toks, i) = P("{") /\ tokAt(toks, i + 1) = S("name") /\ tokAt(toks, i + 2) = P(":")
     /\ tokAt(toks, i + 3).k = "s" /\ tokAt(toks, i + 4) = P(",")
     /\ tokAt(toks, i + 5) = S("todos") /\ tokAt(toks, i + 6) = P(":")
  THEN listAfter(toks, tokAt(toks, i + 3).v, parseTodos(toks, i + 7))
  ELSE ParseFail

\* the elements of the document's array after its "[", up to and including "]"
RECURSIVE parseListsRest(_, _, _)
listsAfter(toks, acc, l) ==
  IF ~l.ok THEN ParseFail
  ELSE IF tokAt(toks, l.next) = P(",") THEN parseListsRest(toks, l.next + 1, Append(acc, l.val))
  ELSE IF tokAt(toks, l.next) = P("]")
       THEN [ok |-> TRUE, next |-> l.next + 1, val |-> Append(acc, l.val)]
  ELSE ParseFail

parseListsRest(toks, i, acc) == listsAfter(toks, acc, parseList(toks, i))

parseDocument(text) ==
  IF tokAt(text, 1) # P("[") THEN ParseFail
  ELSE IF tokAt(text, 2) = P("]") THEN [ok |-> TRUE, next |-> 3, val |-> <<>>]
  ELSE parseListsRest(text, 2, <<>>)

\* a parse counts when it used the whole text
wholeText(text, r) ==
  IF r.ok /\ r.next = Len(text) + 1 THEN [ok |-> TRUE, array |-> TRUE, val |-> r.val]
  ELSE [ok |-> FALSE, array |-> FALSE, val |-> <<>>]

\* the text {} : valid JSON that is an object, not an array
EmptyObjectText == <<P("{"), P("}")>>

\* JSON.parse of a document; ok = FALSE stands for the SyntaxError it throws,
\* array = FALSE for a value that is no array (it has no find, no filter)
JSON_parse(text) ==
  IF text = EmptyObjectText THEN [ok |-> TRUE, array |-> FALSE, val |-> <<>>]
  ELSE wholeText(text, parseDocument(text))

\* ------------------------------------------------------------------------
\* Requests and responses
\* ------------------------------------------------------------------------

\* a todo list as created: { name, todos: [] }
newList(name) == [name |-> name, todos |-> <<>>]

\* request body { operation, name, todo }
Request(operation, name, todo) == [operation |-> operation, name |-> name, todo |-> todo]

\* !todo, for the todo values of the input universe
todoMissing(todo) == todo = NoTodo

\* a response: HTTP status, the message or error text (kind, with the name and
\* the todo id the text quotes), and body.todoList for a read
Response(status, kind, name, id) ==
  [status |-> status, kind |-> kind, name |-> name, id |-> id, todoList |-> <<>>]

ReadResponse(todoList) ==
  [status |-> 200, kind |-> "read", name |-> Undefined, id |-> Undefined, todoList |-> todoList]

NoResponse == Response(0, "none", Undefined, Undefined)

\* ------------------------------------------------------------------------
\* server.js: the JSON file and the POST /todolist handler
\* ------------------------------------------------------------------------

\* dist/dev-keys/todos.json before it is first written
NoFile == [exists |-> FALSE, raw |-> <<>>]

\* the file as a handler run meets it: io is what fs.writeFileSync will do
\* in writeStore, threw whether it has thrown
fs(file, io) == [exists |-> file.exists, raw |-> file.raw, io |-> io, threw |-> FALSE]

\* what is on disk when the handler run is over
onDisk(file) == [exists |-> file.exists, raw |-> file.raw]

ensureStore(file) ==
  IF file.exists THEN file ELSE [file EXCEPT !.exists = TRUE, !.raw = JSON_stringify(<<>>)]

\* raw || '[]'
orEmptyArray(raw) == IF raw = <<>> THEN JSON_stringify(<<>>) ELSE raw

\* try { return JSON.parse(...) } catch (e) { return [] }
\* the value returned: v is the array, array = FALSE says it is none
parsedOrEmpty(parsed) ==
  IF parsed.ok THEN [array |-> parsed.array, v |-> parsed.val]
  ELSE [array |-> TRUE, v |-> <<>>]

readStore(file) == parsedOrEmpty(JSON_parse(orEmptyArray(ensureStore(file).raw)))

\* fs.writeFileSync(dataFile, text, 'utf8'): the file is opened with flag
\* 'w', which drops its content, and the text is written; it throws when the
\* open is refused (the content stays), or when the write fails after the
\* open (nothing or only the beginning of the text is in the file)
writeFileSync(file, text) ==
  CASE file.io = "ok" -> [file EXCEPT !.raw = text]
    [] file.io = "refused" -> [file EXCEPT !.threw = TRUE]
    [] file.io = "truncated" -> [file EXCEPT !.raw = <<>>, !.threw = TRUE]
    [] file.io = "partial" -> [file EXCEPT !.raw = SubSeq(text, 1, 1), !.threw = TRUE]

writeStore(file, todoList) == writeFileSync(ensureStore(file), JSON_stringify(todoList))

\* the result of a handler run: the file it leaves and the response it sends
Out(file, res) == [file |-> file, res |-> res]

\* server_create without the lookup of the name
server_create_noLookup(file, todoList, name) ==
  IF Falsy(name) THEN Out(file, Response(400, "missingName", Undefined, Undefined))
  ELSE Out(writeStore(file, unshift(todoList, newList(name))),
           Response(200, "listAdded", name, Undefined))

\* server_create with push in place of unshift
server_create_push(file, todoList, name) ==
  IF Falsy(name) THEN Out(file, Response(400, "missingName", Undefined, Undefined))
  ELSE IF findList(todoList, name) = 0
       THEN Out(writeStore(file, Append(todoList, newList(name))),
                Response(200, "listAdded", name, Undefined))
       ELSE Out(file, Response(400, "alreadyExists", name, Undefined))

\* server_create that saves the list anew, without its items, when it
\* refuses the name
server_create_resetOnDuplicate(file, todoList, name) ==
  IF Falsy(name) THEN Out(file, Response(400, "missingName", Undefined, Undefined))
  ELSE IF findList(todoList, name) = 0
       THEN Out(writeStore(file, unshift(todoList, newList(name))),
                Response(200, "listAdded", name, Undefined))
       ELSE Out(writeStore(file, unshift(filterName(todoList, name), newList(name))),
                Response(400, "alreadyExists", name, Undefined))

\* case 'create'
server_create(file, todoList, name) ==
  IF Falsy(name) THEN Out(file, Response(400, "missingName", Undefined, Undefined))
  ELSE IF findList(todoList, name) = 0
       THEN Out(writeStore(file, unshift(todoList, newList(name))),
                Response(200, "listAdded", name, Undefined))
       ELSE Out(file, Response(400, "alreadyExists", name, Undefined))

\* case 'read'
server_read(file, todoList) == Out(file, ReadResponse(todoList))

\* server_update with <= in place of < in the test of the cap
server_update_offByOne(file, todoList, name, todo) ==
  IF Falsy(name) THEN Out(file, Response(400, "missingName", Undefined, Undefined))
  ELSE IF todoMissing(todo) THEN Out(file, Response(400, "todoMissing", Undefined, Undefined))
  ELSE LET l == findList(todoList, name)
       IN IF l = 0 THEN Out(file, Response(400, "notFound", name, Undefined))
          ELSE LET idx == findTodo(todoList[l].todos, todo)
               IN IF idx # 0
                  THEN Out(writeStore(file, [todoList EXCEPT ![l].todos[idx] = todo]),
                           Response(200, "todoUpdated", name, todo.id))
                  ELSE IF Len(todoList[l].todos) <= MAX_TODO_ITEMS
                  THEN Out(writeStore(file, [todoList EXCEPT ![l].todos = unshift(@, todo)]),
                           Response(200, "todoAdded", name, todo.id))
                  ELSE Out(file, Response(400, "maxReached", name, Undefined))

\* server_update that takes the item found out of the list and puts the todo
\* in front
server_update_moveToFront(file, todoList, name, todo) ==
  IF Falsy(name) THEN Out(file, Response(400, "missingName", Undefined, Undefined))
  ELSE IF todoMissing(todo) THEN Out(file, Response(400, "todoMissing", Undefined, Undefined))
  ELSE LET l == findList(todoList, name)
       IN IF l = 0 THEN Out(file, Response(400, "notFound", name, Undefined))
          ELSE LET idx == findTodo(todoList[l].todos, todo)
               IN IF idx # 0
                  THEN Out(writeStore(file,
                             [todoList EXCEPT ![l].todos =
                                unshift(filterId(@, todo.id), todo)]),
                           Response(200, "todoUpdated", name, todo.id))
                  ELSE IF Len(todoList[l].todos) < MAX_TODO_ITEMS
                  THEN Out(writeStore(file, [todoList EXCEPT ![l].todos = unshift(@, todo)]),
                           Response(200, "todoAdded", name, todo.id))
                  ELSE Out(file, Response(400, "maxReached", name, Undefined))

\* server_update with push in place of unshift
server_update_push(file, todoList, name, todo) ==
  IF Falsy(name) THEN Out(file, Response(400, "missingName", Undefined, Undefined))
  ELSE IF todoMissing(todo) THEN Out(file, Response(400, "todoMissing", Undefined, Undefined))
  ELSE LET l == findList(todoList, name)
       IN IF l = 0 THEN Out(file, Response(400, "notFound", name, Undefined))
          ELSE LET idx == findTodo(todoList[l].todos, todo)
               IN IF idx # 0
                  THEN Out(writeStore(file, [todoList EXCEPT ![l].todos[idx] = todo]),
                           Response(200, "todoUpdated", name, todo.id))
                  ELSE IF Len(todoList[l].todos) < MAX_TODO_ITEMS
                  THEN Out(writeStore(file, [todoList EXCEPT ![l].todos = Append(@, todo)]),
                           Response(200, "todoAdded", name, todo.id))
                  ELSE Out(file, Response(400, "maxReached", name, Undefined))

\* server_update that tests the cap before it looks the id up
server_update_capFirst(file, todoList, name, todo) ==
  IF Falsy(name) THEN Out(file, Response(400, "missingName", Undefined, Undefined))
  ELSE IF todoMissing(todo) THEN Out(file, Response(400, "todoMissing", Undefined, Undefined))
  ELSE LET l == findList(todoList, name)
       IN IF l = 0 THEN Out(file, Response(400, "notFound", name, Undefined))
          ELSE LET idx == findTodo(todoList[l].todos, todo)
               IN IF Len(todoList[l].todos) >= MAX_TODO_ITEMS
                  THEN Out(file, Response(400, "maxReached", name, Undefined))
                  ELSE IF idx # 0
                  THEN Out(writeStore(file, [todoList EXCEPT ![l].todos[idx] = todo]),
                           Response(200, "todoUpdated", name, todo.id))
                  ELSE Out(writeStore(file, [todoList EXCEPT ![l].todos = unshift(@, todo)]),
                           Response(200, "todoAdded", name, todo.id))

\* server_update without the lookup of the id: the todo is added whenever
\* the list has room
server_update_noLookup(file, todoList, name, todo) ==
  IF Falsy(name) THEN Out(file, Response(400, "missingName", Undefined, Undefined))
  ELSE IF todoMissing(todo) THEN Out(file, Response(400, "todoMissing", Undefined, Undefined))
  ELSE LET l == findList(todoList, name)
       IN IF l = 0 THEN Out(file, Response(400, "notFound", name, Undefined))
          ELSE IF Len(todoList[l].todos) < MAX_TODO_ITEMS
               THEN Out(writeStore(file, [todoList EXCEPT ![l].todos = unshift(@, todo)]),
                        Response(200, "todoAdded", name, todo.id))
               ELSE Out(file, Response(400, "maxReached", name, Undefined))

\* server_update that puts the list it has changed in front of the others
server_update_listToFront(file, todoList, name, todo) ==
  IF Falsy(name) THEN Out(file, Response(400, "missingName", Undefined, Undefined))
  ELSE IF todoMissing(todo) THEN Out(file, Response(400, "todoMissing", Undefined, Undefined))
  ELSE LET l == findList(todoList, name)
       IN IF l = 0 THEN Out(file, Response(400, "notFound", name, Undefined))
          ELSE LET idx == findTodo(todoList[l].todos, todo)
               IN IF idx # 0
                  THEN Out(writeStore(file,
                             unshift(filterName(todoList, name),
                                     [todoList[l] EXCEPT !.todos[idx] = todo])),
                           Response(200, "todoUpdated", name, todo.id))
                  ELSE IF Len(todoList[l].todos) < MAX_TODO_ITEMS
                  THEN Out(writeStore(file,
                             unshift(filterName(todoList, name),
                                     [todoList[l] EXCEPT !.todos = unshift(@, todo)])),
                           Response(200, "todoAdded", name, todo.id))
                  ELSE Out(file, Response(400, "maxReached", name, Undefined))

\* server_update that makes room in a full list by dropping its last item
server_update_evictOldest(file, todoList, name, todo) ==
  IF Falsy(name) THEN Out(file, Response(400, "missingName", Undefined, Undefined))
  ELSE IF todoMissing(todo) THEN Out(file, Response(400, "todoMissing", Undefined, Undefined))
  ELSE LET l == findList(todoList, name)
       IN IF l = 0 THEN Out(file, Response(400, "notFound", name, Undefined))
          ELSE LET idx == findTodo(todoList[l].todos, todo)
               IN IF idx # 0
                  THEN Out(writeStore(file, [todoList EXCEPT ![l].todos[idx] = todo]),
                           Response(200, "todoUpdated", name, todo.id))
                  ELSE IF Len(todoList[l].todos) < MAX_TODO_ITEMS
                  THEN Out(writeStore(file, [todoList EXCEPT ![l].todos = unshift(@, todo)]),
                           Response(200, "todoAdded", name, todo.id))
                  ELSE Out(writeStore(file,
                             [todoList EXCEPT ![l].todos =
                                unshift(SubSeq(@, 1, Len(@) - 1), todo)]),
                           Response(200, "todoAdded", name, todo.id))

\* case 'update'
server_update(file, todoList, name, todo) ==
  IF Falsy(name) THEN Out(file, Response(400, "missingName", Undefined, Undefined))
  ELSE IF todoMissing(todo) THEN Out(file, Response(400, "todoMissing", Undefined, Undefined))
  ELSE LET l == findList(todoList, name)
       IN IF l = 0 THEN Out(file, Response(400, "notFound", name, Undefined))
          ELSE LET idx == findTodo(todoList[l].todos, todo)
               IN IF idx # 0
                  THEN Out(writeStore(file, [todoList EXCEPT ![l].todos[idx] = todo]),
                           Response(200, "todoUpdated", name, todo.id))
                  ELSE IF Len(todoList[l].todos) < MAX_TODO_ITEMS
                  THEN Out(writeStore(file, [todoList EXCEPT ![l].todos = unshift(@, todo)]),
                           Response(200, "todoAdded", name, todo.id))
                  ELSE Out(file, Response(400, "maxReached", name, Undefined))

\* server_delete that keeps no list at all
server_delete_all(file, todoList, name) ==
  IF Falsy(name) THEN Out(file, Response(400, "missingName", Undefined, Undefined))
  ELSE Out(writeStore(file, <<>>), Response(200, "listDeleted", name, Undefined))

\* server_delete without the check of the name
server_delete_noNameCheck(file, todoList, name) ==
  Out(writeStore(file, filterName(todoList, name)),
      Response(200, "listDeleted", name, Undefined))

\* server_delete that saves the lists as they are
server_delete_none(file, todoList, name) ==
  IF Falsy(name) THEN Out(file, Response(400, "missingName", Undefined, Undefined))
  ELSE Out(writeStore(file, todoList), Response(200, "listDeleted", name, Undefined))

\* case 'delete'
server_delete(file, todoList, name) ==
  IF Falsy(name) THEN Out(file, Response(400, "missingName", Undefined, Undefined))
  ELSE Out(writeStore(file, filterName(todoList, name)),
           Response(200, "listDeleted", name, Undefined))

\* the handler throws and Express answers for it: 500
uncaught(file, kind) == Out(file, Response(500, kind, Undefined, Undefined))

\* the switch when readStore returned a value that is no array: read returns
\* it as it is; todoList.find and todoList.filter are not functions, so
\* create, update and delete throw a TypeError once their checks of the
\* request have passed
server_switch_nonArray(file, r) ==
  CASE r.operation = "read" -> Out(file, Response(200, "readNonArray", Undefined, Undefined))
    [] r.operation \in {"create", "update", "delete"} ->
         IF Falsy(r.name) THEN Out(file, Response(400, "missingName", Undefined, Undefined))
         ELSE IF r.operation = "update" /\ todoMissing(r.todo)
              THEN Out(file, Response(400, "todoMissing", Undefined, Undefined))
         ELSE uncaught(file, "typeError")
    [] OTHER -> Out(file, Response(400, "crudNotFound", Undefined, Undefined))

\* switch (operation), on the file and the todoList that readStore left
server_switch(file, todoList, r) ==
  IF ~todoList.array THEN server_switch_nonArray(file, r)
  ELSE CASE r.operation = "create" -> server_create(file, todoList.v, r.name)
         [] r.operation = "read" -> server_read(file, todoList.v)
         [] r.operation = "update" -> server_update(file, todoList.v, r.name, r.todo)
         [] r.operation = "delete" -> server_delete(file, todoList.v, r.name)
         [] OTHER -> Out(file, Response(400, "crudNotFound", Undefined, Undefined))

\* a throw of writeStore leaves the handler before res.json(body)
answered(out) == IF out.file.threw THEN uncaught(out.file, "ioError") ELSE out

\* app.post('/todolist', ...)
post_todolist(file, r) ==
  IF Falsy(r.operation)
  THEN Out(file, Response(400, "missingOperation", Undefined, Undefined))
  ELSE answered(server_switch(ensureStore(file), readStore(file), r))

\* ------------------------------------------------------------------------
\* actions/todolist/index.js: the key `todolist` of aio-lib-state and main
\* ------------------------------------------------------------------------

\* the key before it is first put: state.get resolves to undefined
NoEntry == [present |-> FALSE, value |-> <<>>]

Entry(value) == [present |-> TRUE, value |-> value]

\* let todoList = (await state.get(`todolist`)) || [];
\* if (todoList) { todoList = todoList.value; }
\* An absent key gives [], which is truthy, and [].value is undefined.
loadTodoList(entry) == [defined |-> entry.present, v |-> entry.value]

\* what one run of main does after the load: whether it puts, the value it
\* puts, and the response it returns
Effect(put, value, res) == [put |-> put, value |-> value, res |-> res]

NoPut(res) == Effect(FALSE, <<>>, res)

\* the catch block: a TypeError raised on an undefined todoList is
\* answered with errorResponse(500, error.message)
caught == NoPut(Response(500, "serverError", Undefined, Undefined))

\* checkMissingRequestInputs(params, ['operation'], ['Authorization']) of
\* actions/utils.js, for requests that carry the Authorization header
checkMissingRequestInputs(r) == Falsy(r.operation)

\* action_create that puts the list again when the name is found
action_create_putAgain(todoList, name) ==
  IF ~todoList.defined THEN caught
  ELSE IF findList(todoList.v, name) = 0
       THEN Effect(TRUE, unshift(todoList.v, newList(name)),
                   Response(200, "listAdded", name, Undefined))
       ELSE Effect(TRUE,
                   unshift(filterName(todoList.v, name), newList(name)),
                   Response(400, "alreadyExists", name, Undefined))

\* case 'create'
action_create(todoList, name) ==
  IF ~todoList.defined THEN caught
  ELSE IF findList(todoList.v, name) = 0
       THEN Effect(TRUE, unshift(todoList.v, newList(name)),
                   Response(200, "listAdded", name, Undefined))
       ELSE NoPut(Response(400, "alreadyExists", name, Undefined))

\* case 'read'; an undefined todoList leaves body.todoList undefined
action_read(todoList) ==
  IF todoList.defined THEN NoPut(ReadResponse(todoList.v))
  ELSE NoPut(Response(200, "readUndefined", Undefined, Undefined))

\* action_update that moves the item it replaces to the end of the list
action_update_moveToEnd(todoList, name, todo) ==
  IF todoMissing(todo) THEN NoPut(Response(400, "todoMissing", Undefined, Undefined))
  ELSE IF ~todoList.defined THEN caught
  ELSE LET l == findList(todoList.v, name)
       IN IF l = 0 THEN NoPut(Response(400, "notFound", name, Undefined))
          ELSE LET todoIndex == findTodo(todoList.v[l].todos, todo)
               IN IF todoIndex # 0
                  THEN Effect(TRUE,
                              [todoList.v EXCEPT ![l].todos =
                                 Append(filterId(@, todo.id), todo)],
                              Response(200, "todoUpdated", name, todo.id))
                  ELSE IF Len(todoList.v[l].todos) < MAX_TODO_ITEMS
                  THEN Effect(TRUE, [todoList.v EXCEPT ![l].todos = unshift(@, todo)],
                              Response(200, "todoAdded", name, todo.id))
                  ELSE NoPut(Response(400, "maxReached", name, Undefined))

\* action_update with push in place of unshift
action_update_push(todoList, name, todo) ==
  IF todoMissing(todo) THEN NoPut(Response(400, "todoMissing", Undefined, Undefined))
  ELSE IF ~todoList.defined THEN caught
  ELSE LET l == findList(todoList.v, name)
       IN IF l = 0 THEN NoPut(Response(400, "notFound", name, Undefined))
          ELSE LET todoIndex == findTodo(todoList.v[l].todos, todo)
               IN IF todoIndex # 0
                  THEN Effect(TRUE, [todoList.v EXCEPT ![l].todos[todoIndex] = todo],
                              Response(200, "todoUpdated", name, todo.id))
                  ELSE IF Len(todoList.v[l].todos) < MAX_TODO_ITEMS
                  THEN Effect(TRUE, [todoList.v EXCEPT ![l].todos = Append(@, todo)],
                              Response(200, "todoAdded", name, todo.id))
                  ELSE NoPut(Response(400, "maxReached", name, Undefined))

\* action_update without the lookup of the id: the todo is added whenever
\* the list has room
action_update_noLookup(todoList, name, todo) ==
  IF todoMissing(todo) THEN NoPut(Response(400, "todoMissing", Undefined, Undefined))
  ELSE IF ~todoList.defined THEN caught
  ELSE LET l == findList(todoList.v, name)
       IN IF l = 0 THEN NoPut(Response(400, "notFound", name, Undefined))
          ELSE IF Len(todoList.v[l].todos) < MAX_TODO_ITEMS
               THEN Effect(TRUE, [todoList.v EXCEPT ![l].todos = unshift(@, todo)],
                           Response(200, "todoAdded", name, todo.id))
               ELSE NoPut(Response(400, "maxReached", name, Undefined))

\* action_update that looks the list up before it tests the todo
action_update_lookupFirst(todoList, name, todo) ==
  IF ~todoList.defined THEN caught
  ELSE LET l == findList(todoList.v, name)
       IN IF l = 0 THEN NoPut(Response(400, "notFound", name, Undefined))
          ELSE IF todoMissing(todo)
               THEN NoPut(Response(400, "todoMissing", Undefined, Undefined))
          ELSE LET todoIndex == findTodo(todoList.v[l].todos, todo)
               IN IF todoIndex # 0
                  THEN Effect(TRUE, [todoList.v EXCEPT ![l].todos[todoIndex] = todo],
                              Response(200, "todoUpdated", name, todo.id))
                  ELSE IF Len(todoList.v[l].todos) < MAX_TODO_ITEMS
                  THEN Effect(TRUE, [todoList.v EXCEPT ![l].todos = unshift(@, todo)],
                              Response(200, "todoAdded", name, todo.id))
                  ELSE NoPut(Response(400, "maxReached", name, Undefined))

\* case 'update'
action_update(todoList, name, todo) ==
  IF todoMissing(todo) THEN NoPut(Response(400, "todoMissing", Undefined, Undefined))
  ELSE IF ~todoList.defined THEN caught
  ELSE LET l == findList(todoList.v, name)
       IN IF l = 0 THEN NoPut(Response(400, "notFound", name, Undefined))
          ELSE LET todoIndex == findTodo(todoList.v[l].todos, todo)
               IN IF todoIndex # 0
                  THEN Effect(TRUE, [todoList.v EXCEPT ![l].todos[todoIndex] = todo],
                              Response(200, "todoUpdated", name, todo.id))
                  ELSE IF Len(todoList.v[l].todos) < MAX_TODO_ITEMS
                  THEN Effect(TRUE, [todoList.v EXCEPT ![l].todos = unshift(@, todo)],
                              Response(200, "todoAdded", name, todo.id))
                  ELSE NoPut(Response(400, "maxReached", name, Undefined))

\* case 'delete'
action_delete(todoList, name) ==
  IF ~todoList.defined THEN caught
  ELSE Effect(TRUE, filterName(todoList.v, name),
              Response(200, "listDeleted", name, Undefined))

\* the checks of main before state.init: the response they return, or
\* NoResponse when the request passes
action_precheck(r) ==
  IF checkMissingRequestInputs(r) THEN Response(400, "missingOperation", Undefined, Undefined)
  ELSE IF r.operation # "read" /\ Falsy(r.name)
       THEN Response(400, "missingName", Undefined, Undefined)
  ELSE NoResponse

\* the switch of main, on the todoList it loaded
action_switch(todoList, r) ==
  CASE r.operation = "create" -> action_create(todoList, r.name)
    [] r.operation = "read" -> action_read(todoList)
    [] r.operation = "update" -> action_update(todoList, r.name, r.todo)
    [] r.operation = "delete" -> action_delete(todoList, r.name)
    [] OTHER -> NoPut(Response(400, "crudNotFound", Undefined, Undefined))

\* await state.put(`todolist`, value, { ttl: -1 })
statePut(entry, eff) == IF eff.put THEN Entry(eff.value) ELSE entry

\* the entry and the response that an effect leaves; when state.put
\* rejects, the key keeps its value and the catch block answers with 500 and
\* the error's message
applied(entry, eff, io) ==
  IF eff.put /\ io # "ok"
  THEN [state |-> entry, res |-> Response(500, "ioError", Undefined, Undefined), threw |-> TRUE]
  ELSE [state |-> statePut(entry, eff), res |-> eff.res, threw |-> FALSE]

\* one whole run of main with no other invocation in between; io is what
\* state.put will do
main(entry, r, io) ==
  IF action_precheck(r) # NoResponse
  THEN [state |-> entry, res |-> action_precheck(r), threw |-> FALSE]
  ELSE applied(entry, action_switch(loadTodoList(entry), r), io)

\* ------------------------------------------------------------------------
\* The per-item-key variant: the todolist action of unnamed/part_000 keeps
\* the names of the lists under the key `todolist`, and actions/todo/index.js
\* keeps each item under its own key `todo-<name>-<id>`.
\* ------------------------------------------------------------------------

\* the ids of the todos sent to the todo action, as the key spells them:
\* below the range, whole numbers in it, a fraction in it, and the first
\* above it
ItemIds ==
  {"-1", "0", "1", "1.5", ToString(MAX_TODO_ITEMS - 1), ToString(MAX_TODO_ITEMS)}

\* twice the number that an id is
twice(id) ==
  IF id = "1.5" THEN 3
  ELSE 2 * (CHOOSE i \in -1..MAX_TODO_ITEMS : ToString(i) = id)

\* a todo as the todo action takes it: { name, id, title }
ItemTodo(name, id, title) == [name |-> name, id |-> id, title |-> title]

ItemTodoInputs == {ItemTodo(n, id, "x") : n \in Names, id \in ItemIds}

\* todo.id >= 0 && todo.id < MAX_TODO_ITEMS, with MAX_TODO_ITEMS the
\* parameter the action is deployed with
inRange(id) == twice(id) >= 0 /\ twice(id) < 2 * MAX_TODO_ITEMS

\* `todo-${name}-${id}`
todoKey(name, id) == <<name, id>>

\* the keys a put can reach
ItemKeys == {todoKey(n, id) : n \in Names, id \in {i \in ItemIds : inRange(i)}}

\* state.get resolves to undefined for a key that is not set
NoItem == ItemTodo(Undefined, Undefined, Undefined)

NoKeys == [k \in ItemKeys |-> NoItem]

\* what a run of either action leaves: the key `todolist`, the item keys and
\* the response
ItemsOut(entry, keys, r) == [state |-> entry, keys |-> keys, res |-> r]

\* defaultTodoList(): the names, [] when the key is unset
defaultTodoList(entry) == IF entry.present THEN entry.value ELSE <<>>

\* names.includes(name)
includes(names, name) == \E i \in 1..Len(names) : names[i] = name

\* names.filter((todoListName) => todoListName !== name)
filterNames(names, name) == SelectSeq(names, LAMBDA n : n # name)

\* the keys `todo-${name}-${i}` for i = 0 .. MAX_TODO_ITEMS - 1
loopKeys(name) == {todoKey(name, ToString(i)) : i \in 0..(MAX_TODO_ITEMS - 1)}

RECURSIVE readTodos(_, _, _, _)
\* for (let i = 0; i < MAX_TODO_ITEMS; i++) { ... todo.todos.unshift(todoItem.value) }
readTodos(keys, name, i, todos) ==
  IF i >= MAX_TODO_ITEMS THEN todos
  ELSE readTodos(keys, name, i + 1,
                 IF todoKey(name, ToString(i)) \in ItemKeys
                    /\ keys[todoKey(name, ToString(i))] # NoItem
                 THEN unshift(todos, keys[todoKey(name, ToString(i))])
                 ELSE todos)

RECURSIVE readLists(_, _, _, _)
\* for (const name of names) { ... body.todoList.unshift(todo) }
readLists(keys, names, n, todoList) ==
  IF n > Len(names) THEN todoList
  ELSE readLists(keys, names, n + 1,
                 unshift(todoList,
                         [name |-> names[n], todos |-> readTodos(keys, names[n], 0, <<>>)]))

\* case 'read' of unnamed/part_000
items_read(entry, keys) ==
  ItemsOut(entry, keys, ReadResponse(readLists(keys, defaultTodoList(entry), 1, <<>>)))

\* case 'create' of unnamed/part_000
items_create(entry, keys, name) ==
  IF Falsy(name) THEN ItemsOut(entry, keys, Response(200, "nameEmpty", Undefined, Undefined))
  ELSE IF ~includes(defaultTodoList(entry), name)
       THEN ItemsOut(Entry(Append(defaultTodoList(entry), name)), keys,
                     Response(200, "nameAdded", name, Undefined))
       ELSE ItemsOut(entry, keys, Response(200, "nameExists", name, Undefined))

\* case 'delete' of unnamed/part_000
items_delete(entry, keys, name) ==
  ItemsOut(IF entry.present THEN Entry(filterNames(entry.value, name)) ELSE entry,
           [k \in ItemKeys |-> IF k \in loopKeys(name) THEN NoItem ELSE keys[k]],
           Response(200, "nameDeleted", name, Undefined))

\* main of unnamed/part_000, for requests that carry the Authorization header
items_main(entry, keys, r) ==
  IF checkMissingRequestInputs(r)
  THEN ItemsOut(entry, keys, Response(400, "missingOperation", Undefined, Undefined))
  ELSE CASE r.operation = "read" -> items_read(entry, keys)
         [] r.operation = "create" -> items_create(entry, keys, r.name)
         [] r.operation = "delete" -> items_delete(entry, keys, r.name)
         [] OTHER -> ItemsOut(entry, keys, Response(400, "crudNotFound", Undefined, Undefined))

\* main of actions/todo/index.js
todo_main(entry, keys, r) ==
  IF checkMissingRequestInputs(r)
  THEN ItemsOut(entry, keys, Response(400, "missingOperation", Undefined, Undefined))
  ELSE IF r.operation \notin {"create", "update"}
  THEN ItemsOut(entry, keys, Response(400, "crudNotFound", Undefined, Undefined))
  ELSE IF todoMissing(r.todo)
  THEN ItemsOut(entry, keys, Response(200, "todoEmpty", Undefined, Undefined))
  ELSE IF inRange(r.todo.id)
  THEN ItemsOut(entry, [keys EXCEPT ![todoKey(r.todo.name, r.todo.id)] = r.todo],
                Response(200, "todoPut", r.todo.name, r.todo.id))
  ELSE ItemsOut(entry, keys, Response(200, "maxReachedForId", Undefined, Undefined))

\* ------------------------------------------------------------------------
\* State
\* ------------------------------------------------------------------------

VARIABLES
  impl,      \* which implementation serves the requests: "server" or "action"
  dataFile,  \* server.js: dist/dev-keys/todos.json
  state,     \* actions/todolist: the entry under the key `todolist`
  req,       \* the last request served
  res,       \* the response to it
  before,    \* what was persisted when that request arrived
  fault,     \* how the save of that request failed, "none" when it did not
  saved,     \* SpecStore: the value last handed to writeStore
  pc,        \* SpecConc: where each invocation of main stands
  params,    \* SpecConc: the request of each invocation
  pending,   \* SpecConc: what each invocation is about to put and to return
  result,    \* SpecConc: the response each invocation returned
  actionRes, \* SpecBoth: what main returned for the request, res being the server's
  todoKeys,  \* SpecItems: the keys `todo-<name>-<id>` of aio-lib-state
  app        \* SpecUI: the state of the App component, todoList and isLoading

vars ==
  <<impl, dataFile, state, req, res, before, fault, saved, pc, params, pending, result,
    actionRes, todoKeys, app>>

\* what only SpecBoth, SpecItems and SpecUI change
extVars == <<actionRes, todoKeys, app>>

concVars == <<pc, params, pending, result>>

seqVars == <<impl, extVars, dataFile, req, res, before, fault, saved>>

Persisted == [dataFile |-> dataFile, state |-> state]

\* the Store a load yields from what is persisted
StoreOf(p) ==
  IF impl = "server" THEN readStore(p.dataFile).v
  ELSE p.state.value

Store == StoreOf(Persisted)

StoreBefore == StoreOf(before)

NoRequest == Request(Undefined, Undefined, NoTodo)

\* the concurrent invocations of main
Procs == 1..NumProcs

\* no invocation has been made
Idle ==
  /\ pc = [p \in Procs |-> "idle"]
  /\ params = [p \in Procs |-> NoRequest]
  /\ pending = [p \in Procs |-> NoPut(NoResponse)]
  /\ result = [p \in Procs |-> NoResponse]

\* useState(true), useState([])
Unmounted == [isLoading |-> TRUE, todoList |-> <<>>]

\* only one implementation is run, it keeps no key per item, and no UI is
\* mounted on it
Alone == actionRes = NoResponse /\ todoKeys = NoKeys /\ app = Unmounted

\* The server starts with no data file.  The key `todolist` is either
\* unset or holds the empty document.
Init ==
  /\ impl \in {"server", "action"}
  /\ dataFile = NoFile
  /\ state \in (IF impl = "action" THEN {NoEntry, Entry(<<>>)} ELSE {NoEntry})
  /\ req = NoRequest
  /\ res = NoResponse
  /\ before = [dataFile |-> dataFile, state |-> state]
  /\ fault = "none"
  /\ saved = <<>>
  /\ Idle
  /\ Alone

\* what the server leaves after a request
serverServed(out, io) ==
  [dataFile |-> onDisk(out.file), state |-> state, res |-> out.res,
   fault |-> IF out.file.threw THEN io ELSE "none"]

\* what a run of main leaves after a request
actionServed(out, io) ==
  [dataFile |-> dataFile, state |-> out.state, res |-> out.res,
   fault |-> IF out.threw THEN io ELSE "none"]

\* one request, served whole by the implementation in use, with a save that
\* does what io says
servedWith(r, io) ==
  IF impl = "server" THEN serverServed(post_todolist(fs(dataFile, io), r), io)
  ELSE actionServed(main(state, r, io), io)

\* one request served with a backend that works
served(r) == servedWith(r, "ok")

\* { operation: 'create', name }
Create ==
  \E name \in NameInputs : \E out \in {served(Request("create", name, NoTodo))} :
    /\ req' = Request("create", name, NoTodo)
    /\ dataFile' = out.dataFile /\ state' = out.state /\ res' = out.res
    /\ before' = Persisted
    /\ fault' = out.fault
    /\ UNCHANGED <<impl, extVars, saved, concVars>>

\* { operation: 'read' }
Read ==
  \E out \in {served(Request("read", Undefined, NoTodo))} :
    /\ req' = Request("read", Undefined, NoTodo)
    /\ dataFile' = out.dataFile /\ state' = out.state /\ res' = out.res
    /\ before' = Persisted
    /\ fault' = out.fault
    /\ UNCHANGED <<impl, extVars, saved, concVars>>

\* { operation: 'update', name, todo }
Update ==
  \E u \in UpdateInputs : \E out \in {served(Request("update", u[1], u[2]))} :
    /\ req' = Request("update", u[1], u[2])
    /\ dataFile' = out.dataFile /\ state' = out.state /\ res' = out.res
    /\ before' = Persisted
    /\ fault' = out.fault
    /\ UNCHANGED <<impl, extVars, saved, concVars>>

\* { operation: 'delete', name }
Delete ==
  \E name \in NameInputs : \E out \in {served(Request("delete", name, NoTodo))} :
    /\ req' = Request("delete", name, NoTodo)
    /\ dataFile' = out.dataFile /\ state' = out.state /\ res' = out.res
    /\ before' = Persisted
    /\ fault' = out.fault
    /\ UNCHANGED <<impl, extVars, saved, concVars>>

\* an operation that is none of the four
UnknownOperation ==
  \E name \in NameInputs : \E out \in {served(Request("purge", name, NoTodo))} :
    /\ req' = Request("purge", name, NoTodo)
    /\ dataFile' = out.dataFile /\ state' = out.state /\ res' = out.res
    /\ before' = Persisted
    /\ fault' = out.fault
    /\ UNCHANGED <<impl, extVars, saved, concVars>>

\* a request without an operation
MissingOperation ==
  \E name \in NameInputs : \E out \in {served(Request(Undefined, name, NoTodo))} :
    /\ req' = Request(Undefined, name, NoTodo)
    /\ dataFile' = out.dataFile /\ state' = out.state /\ res' = out.res
    /\ before' = Persisted
    /\ fault' = out.fault
    /\ UNCHANGED <<impl, extVars, saved, concVars>>

Next ==
  \/ Create
  \/ Read
  \/ Update
  \/ Delete
  \/ UnknownOperation
  \/ MissingOperation

Spec == Init /\ [][Next]_vars

\* ------------------------------------------------------------------------
\* The same requests with a backend that fails and a data file that is
\* written from outside the server
\* ------------------------------------------------------------------------

\* what a failing save does: fs.writeFileSync of the server in three ways,
\* state.put of the action by rejecting
FailOutcomes == IF impl = "server" THEN {"refused", "truncated", "partial"} ELSE {"refused"}

\* the requests whose save is made to fail
FailInputs ==
  { Request("create", "b", NoTodo),
    Request("update", "a", Todo("2", "x")),
    Request("delete", "a", NoTodo) }

\* a create, update or delete whose save fails
SaveFails ==
  \E r \in FailInputs : \E io \in FailOutcomes : \E out \in {servedWith(r, io)} :
    /\ out.fault # "none"
    /\ req' = r
    /\ dataFile' = out.dataFile /\ state' = out.state /\ res' = out.res
    /\ before' = Persisted
    /\ fault' = out.fault
    /\ UNCHANGED <<impl, extVars, saved, concVars>>

\* contents of the data file that are no todo list document: text that does
\* not parse ('invalid json'), no text at all, and an object
MalformedTexts == { <<P("invalid json")>>, <<>>, EmptyObjectText }

\* the data file is overwritten from outside, as storage.test.js does with
\* fs.writeFileSync(dataFile, 'invalid json')
Corrupt ==
  /\ impl = "server"
  /\ \E text \in MalformedTexts : dataFile' = [exists |-> TRUE, raw |-> text]
  /\ req' = NoRequest
  /\ res' = NoResponse
  /\ before' = [dataFile |-> dataFile', state |-> state]
  /\ fault' = "none"
  /\ UNCHANGED <<impl, extVars, state, saved, concVars>>

\* a create, update or delete is cut off in its save (the process is
\* killed, the invocation times out): the write stops at one of the points
\* where it can fail, and no response is sent
Interrupted ==
  \E r \in FailInputs : \E io \in FailOutcomes : \E out \in {servedWith(r, io)} :
    /\ out.fault # "none"
    /\ req' = r
    /\ dataFile' = out.dataFile /\ state' = out.state
    /\ res' = NoResponse
    /\ before' = Persisted
    /\ fault' = "interrupted"
    /\ UNCHANGED <<impl, extVars, saved, concVars>>

NextFault ==
  \/ Next
  \/ SaveFails
  \/ Interrupted
  \/ Corrupt

SpecFault == Init /\ [][NextFault]_vars

\* ------------------------------------------------------------------------
\* writeStore and readStore on their own, as storage.test.js calls them
\* ------------------------------------------------------------------------

\* the sequences of at most two elements of a set
UpToTwo(set) ==
  {<<>>} \cup {<<x>> : x \in set} \cup {<<x, y>> : x \in set, y \in set}

\* items with all their fields, and one that has an id only
ItemValues == {Todo("1", "x"), Todo("2", Undefined)}

\* the Store values that are saved
StoreValues ==
  UpToTwo({[name |-> n, todos |-> ts] : n \in Names, ts \in UpToTwo(ItemValues)})

InitStore ==
  /\ impl = "server"
  /\ dataFile = NoFile
  /\ state = NoEntry
  /\ req = NoRequest
  /\ res = NoResponse
  /\ before = [dataFile |-> dataFile, state |-> state]
  /\ fault = "none"
  /\ saved = <<>>
  /\ Idle
  /\ Alone

\* writeStore(todoList)
SaveStore ==
  /\ \E s \in StoreValues :
       /\ dataFile' = onDisk(writeStore(fs(dataFile, "ok"), s))
       /\ saved' = s
  /\ res' = NoResponse
  /\ UNCHANGED <<impl, extVars, state, req, before, fault, concVars>>

\* readStore(), whose result is kept in res
LoadStore ==
  /\ dataFile' = onDisk(ensureStore(dataFile))
  /\ res' = ReadResponse(readStore(dataFile).v)
  /\ UNCHANGED <<impl, extVars, state, req, before, fault, saved, concVars>>

NextStore == SaveStore \/ LoadStore

SpecStore == InitStore /\ [][NextStore]_vars

\* ------------------------------------------------------------------------
\* Concurrent invocations of the Runtime action.  main is async: it yields
\* at `await state.get` and at `await state.put`, and nothing orders the
\* invocations of one action against each other.  Each invocation serves one
\* request.  The handler of server.js has no await: from readStore to
\* writeStore it runs as one step of the event loop, whatever requests are
\* waiting.
\* ------------------------------------------------------------------------

\* what sequential requests left under the key before the invocations start
\* a list "a" that holds MAX_TODO_ITEMS items, of ids no request sends
FullList ==
  [name |-> "a", todos |-> [i \in 1..MAX_TODO_ITEMS |-> Todo(ToString(10 + i), "x")]]

SeedStores ==
  { <<>>,
    <<newList("a")>>,
    <<newList("b"), [name |-> "a", todos |-> <<Todo("1", "x")>>]>>,
    <<FullList>> }

\* the requests of the concurrent invocations
ConcInputs ==
  { Request("create", n, NoTodo) : n \in NameInputs }
  \cup { Request("update", "a", t) :
           t \in {Todo("1", "y"), Todo("2", "x"), Todo("3", "x"), NoTodo} }
  \cup { Request("delete", "a", NoTodo), Request("read", Undefined, NoTodo),
         Request("purge", "a", NoTodo) }

\* the data file that holds a Store
fileOf(s) == onDisk(writeStore(fs(NoFile, "ok"), s))

InitConc ==
  /\ impl \in {"server", "action"}
  /\ dataFile \in (IF impl = "server" THEN {NoFile} \cup {fileOf(s) : s \in SeedStores}
                   ELSE {NoFile})
  /\ state \in (IF impl = "action" THEN {NoEntry} \cup {Entry(s) : s \in SeedStores}
                ELSE {NoEntry})
  /\ req = NoRequest
  /\ res = NoResponse
  /\ before = [dataFile |-> dataFile, state |-> state]
  /\ fault = "none"
  /\ saved = <<>>
  /\ Idle
  /\ Alone

\* Handle on a copy of the data file read when the server started, in place
\* of a readStore inside the handler
Handle_cachedStore(p) ==
  /\ impl = "server"
  /\ pc[p] = "idle"
  /\ \E r \in ConcInputs : \E out \in {post_todolist(fs(before.dataFile, "ok"), r)} :
       /\ params' = [params EXCEPT ![p] = r]
       /\ dataFile' = onDisk(out.file)
       /\ result' = [result EXCEPT ![p] = out.res]
       /\ pc' = [pc EXCEPT ![p] = "done"]
  /\ UNCHANGED <<impl, extVars, state, req, res, before, fault, saved, pending>>

\* server.js: a request is handled, from its arrival to its response
Handle(p) ==
  /\ impl = "server"
  /\ pc[p] = "idle"
  /\ \E r \in ConcInputs : \E out \in {post_todolist(fs(dataFile, "ok"), r)} :
       /\ params' = [params EXCEPT ![p] = r]
       /\ dataFile' = onDisk(out.file)
       /\ result' = [result EXCEPT ![p] = out.res]
       /\ pc' = [pc EXCEPT ![p] = "done"]
  /\ UNCHANGED <<impl, extVars, state, req, res, before, fault, saved, pending>>

\* main is called: the input checks, up to `await state.get`
Invoke(p) ==
  /\ impl = "action"
  /\ pc[p] = "idle"
  /\ \E r \in ConcInputs :
       /\ params' = [params EXCEPT ![p] = r]
       /\ IF action_precheck(r) # NoResponse
          THEN /\ result' = [result EXCEPT ![p] = action_precheck(r)]
               /\ pc' = [pc EXCEPT ![p] = "done"]
          ELSE /\ result' = result
               /\ pc' = [pc EXCEPT ![p] = "get"]
  /\ UNCHANGED <<state, pending, seqVars>>

\* the effect an invocation worked out is kept until its put, or returned
\* at once when there is nothing to put
afterGet(p, eff) ==
  IF eff.put
  THEN /\ pending' = [pending EXCEPT ![p] = eff]
       /\ pc' = [pc EXCEPT ![p] = "put"]
       /\ result' = result
  ELSE /\ pending' = pending
       /\ pc' = [pc EXCEPT ![p] = "done"]
       /\ result' = [result EXCEPT ![p] = eff.res]

\* state.get resolves: the invocation works on the value the key holds now,
\* through the switch, up to `await state.put` or to its return
Get(p) ==
  /\ pc[p] = "get"
  /\ afterGet(p, action_switch(loadTodoList(state), params[p]))
  /\ UNCHANGED <<state, params, seqVars>>

\* state.put resolves: the key takes the value worked out from the value
\* loaded, and main returns
Put(p) ==
  /\ pc[p] = "put"
  /\ state' = statePut(state, pending[p])
  /\ result' = [result EXCEPT ![p] = pending[p].res]
  /\ pc' = [pc EXCEPT ![p] = "done"]
  /\ UNCHANGED <<params, pending, seqVars>>

NextConc == \E p \in Procs : Handle(p) \/ Invoke(p) \/ Get(p) \/ Put(p)

SpecConc == InitConc /\ [][NextConc]_vars


\* ------------------------------------------------------------------------
\* server.js and actions/todolist/index.js side by side: every request is
\* sent to both, the server on its data file and main on its key.
\* ------------------------------------------------------------------------

\* the requests sent to both
BothInputs ==
  { Request(o, n, NoTodo) : o \in {"create", "delete", "purge", Undefined}, n \in NameInputs }
  \cup { Request("update", u[1], u[2]) : u \in UpdateInputs }
  \cup { Request("read", Undefined, NoTodo) }

\* Neither holds anything: the server has no data file; the key is unset or
\* holds the empty document.
InitBoth ==
  /\ impl = "both"
  /\ dataFile = NoFile
  /\ state \in {NoEntry, Entry(<<>>)}
  /\ req = NoRequest
  /\ res = NoResponse
  /\ actionRes = NoResponse
  /\ todoKeys = NoKeys
  /\ app = Unmounted
  /\ before = [dataFile |-> dataFile, state |-> state]
  /\ fault = "none"
  /\ saved = <<>>
  /\ Idle

\* one request, served by app.post('/todolist') and by main
Both ==
  \E r \in BothInputs :
    \E out \in {post_todolist(fs(dataFile, "ok"), r)} : \E act \in {main(state, r, "ok")} :
      /\ req' = r
      /\ dataFile' = onDisk(out.file) /\ res' = out.res
      /\ state' = act.state /\ actionRes' = act.res
      /\ before' = Persisted
      /\ UNCHANGED <<impl, fault, saved, todoKeys, app, concVars>>

NextBoth == Both

SpecBoth == InitBoth /\ [][NextBoth]_vars

\* the Store of the server and the Store of the action
ServerStore == readStore(dataFile).v

ActionStore == state.value

\* ------------------------------------------------------------------------
\* The per-item-key variant, one request after another
\* ------------------------------------------------------------------------

\* Nothing is stored: the key `todolist` is unset and there is no item key.
InitItems ==
  /\ impl = "items"
  /\ dataFile = NoFile
  /\ state = NoEntry
  /\ req = NoRequest
  /\ res = NoResponse
  /\ actionRes = NoResponse
  /\ todoKeys = NoKeys
  /\ app = Unmounted
  /\ before = [dataFile |-> dataFile, state |-> state]
  /\ fault = "none"
  /\ saved = <<>>
  /\ Idle

\* the requests to the todolist action of this variant
ItemsInputs ==
  { Request(o, n, NoTodo) : o \in {"create", "delete"}, n \in NameInputs }
  \cup { Request("read", Undefined, NoTodo), Request("purge", "a", NoTodo),
         Request(Undefined, "a", NoTodo) }

\* the requests to the todo action
TodoActionInputs ==
  { Request(o, Undefined, t) : o \in {"create", "update"}, t \in ItemTodoInputs \cup {NoTodo} }
  \cup { Request("read", Undefined, NoTodo), Request(Undefined, Undefined, NoTodo) }

\* one request, served by a run of main
servedItems(out, r) ==
  /\ req' = r
  /\ state' = out.state /\ todoKeys' = out.keys /\ res' = out.res
  /\ before' = Persisted
  /\ UNCHANGED <<impl, dataFile, fault, saved, actionRes, app, concVars>>

\* a request to the todolist action
TodoListAction == \E r \in ItemsInputs : servedItems(items_main(state, todoKeys, r), r)

\* a request to the todo action
TodoAction == \E r \in TodoActionInputs : servedItems(todo_main(state, todoKeys, r), r)

NextItems == TodoListAction \/ TodoAction

SpecItems == InitItems /\ [][NextItems]_vars

\* ------------------------------------------------------------------------
\* The App component on the local server: its todoList state, the initial
\* read and the handlers of the list-level controls.  Each handler is run to
\* its end, the answer of the server included.
\* ------------------------------------------------------------------------

\* at most this many lists are put on the screen
MaxShown == 5

\* the Store the App is mounted on
InitUI ==
  /\ impl = "server"
  /\ dataFile \in {NoFile} \cup {fileOf(s) : s \in SeedStores}
  /\ state = NoEntry
  /\ req = NoRequest
  /\ res = NoResponse
  /\ actionRes = NoResponse
  /\ todoKeys = NoKeys
  /\ app = Unmounted
  /\ before = [dataFile |-> dataFile, state |-> state]
  /\ fault = "none"
  /\ saved = <<>>
  /\ Idle

\* action('todolist', operation, body): the request is posted and answered
action(r, out) ==
  /\ req' = r
  /\ dataFile' = onDisk(out.file) /\ res' = out.res
  /\ before' = Persisted
  /\ UNCHANGED <<impl, state, fault, saved, actionRes, todoKeys, concVars>>

\* useEffect: const { todoList } = await action('todolist', 'read');
\* if (todoList) { setTodoList(todoList); setIsLoading(false); }
Mount ==
  /\ app.isLoading
  /\ \E out \in {post_todolist(fs(dataFile, "ok"), Request("read", Undefined, NoTodo))} :
       /\ action(Request("read", Undefined, NoTodo), out)
       /\ app' = IF out.res.kind = "read"
                 THEN [isLoading |-> FALSE, todoList |-> out.res.todoList]
                 ELSE app

\* onCreateTodoList(name): setTodoList([{ name, todos: [] }, ...todoList]);
\* await action('todolist', 'create', { name })
onCreateTodoList ==
  /\ ~app.isLoading
  /\ Len(app.todoList) < MaxShown
  /\ \E name \in Names :
       /\ app' = [app EXCEPT !.todoList = unshift(@, newList(name))]
       /\ action(Request("create", name, NoTodo),
                 post_todolist(fs(dataFile, "ok"), Request("create", name, NoTodo)))

\* onDeleteTodoList(name), from the control of a list that is shown:
\* setTodoList(todoList.filter(...)); await action('todolist', 'delete', { name })
onDeleteTodoList ==
  /\ ~app.isLoading
  /\ \E l \in 1..Len(app.todoList) :
       /\ app' = [app EXCEPT !.todoList = filterName(@, app.todoList[l].name)]
       /\ action(Request("delete", app.todoList[l].name, NoTodo),
                 post_todolist(fs(dataFile, "ok"),
                               Request("delete", app.todoList[l].name, NoTodo)))

NextUI == Mount \/ onCreateTodoList \/ onDeleteTodoList

SpecUI == InitUI /\ [][NextUI]_vars

\* ------------------------------------------------------------------------
\* Vocabulary of the properties
\* ------------------------------------------------------------------------

\* the failure kind of the taxonomy that a response's status and text stand for
ErrorKind(r) ==
  CASE r.status = 200 -> "none"
    [] r.kind \in {"missingOperation", "missingName", "todoMissing"} -> "InvalidArgument"
    [] r.kind = "alreadyExists" -> "AlreadyExists"
    [] r.kind = "notFound" -> "NotFound"
    [] r.kind = "maxReached" -> "ResourceExhausted"
    [] r.kind = "crudNotFound" -> "UnknownOperation"
    [] r.kind = "ioError" -> "Unavailable"
    [] OTHER -> "Fault"

HasList(store, name) == \E i \in 1..Len(store) : store[i].name = name

HasTodo(todos, id) == \E i \in 1..Len(todos) : todos[i].id = id

\* the first list of that name
ListOf(store, name) == store[findList(store, name)]

\* the last request was an update that named a list and carried a todo
WasUpdate == req.operation = "update" /\ ~Falsy(req.name) /\ ~todoMissing(req.todo)

\* ... and the list existed when it arrived
WasUpdateOfList == WasUpdate /\ HasList(StoreBefore, req.name)

\* ... and held an item with the todo's id
WasUpdateOfItem == WasUpdateOfList /\ HasTodo(ListOf(StoreBefore, req.name).todos, req.todo.id)

\* ... or held none
WasUpdateOfNewItem ==
  WasUpdateOfList /\ ~HasTodo(ListOf(StoreBefore, req.name).todos, req.todo.id)

\* the last request was a create that named a list
WasCreate == req.operation = "create" /\ ~Falsy(req.name)

\* ------------------------------------------------------------------------
\* Properties, one block per claim
\* ------------------------------------------------------------------------

\* C1: the Store never holds two todo lists of the same name.
C1_Uniqueness ==
  \A i, j \in 1..Len(Store) : Store[i].name = Store[j].name => i = j

\* C1 witness: a create of a name was refused while the Store held two lists.
C1_Witness ==
  /\ WasCreate
  /\ res.kind = "alreadyExists"
  /\ Len(Store) = 2

\* C2: no list ever holds more than MAX_TODO_ITEMS items; an update with a
\* new id on a list that holds MAX_TODO_ITEMS fails with ResourceExhausted,
\* and what a read returns shows no list above the cap.
C2_BoundedSize ==
  /\ \A i \in 1..Len(Store) : Len(Store[i].todos) <= MAX_TODO_ITEMS
  /\ (WasUpdateOfNewItem /\ Len(ListOf(StoreBefore, req.name).todos) = MAX_TODO_ITEMS)
       => /\ ErrorKind(res) = "ResourceExhausted"
          /\ Len(ListOf(Store, req.name).todos) = MAX_TODO_ITEMS
  /\ res.kind = "read" =>
       /\ res.todoList = Store
       /\ \A i \in 1..Len(res.todoList) : Len(res.todoList[i].todos) <= MAX_TODO_ITEMS

\* C2 witness: an update with a new id was refused on a full list.
C2_Witness ==
  /\ WasUpdateOfNewItem
  /\ res.kind = "maxReached"
  /\ Len(ListOf(Store, req.name).todos) = MAX_TODO_ITEMS

\* C6: in the local server, create(name) with a non-empty name that the
\* Store does not hold puts {name, todos: []} in front of the lists the
\* Store held, persists it and reports the list as added, so the lists stand
\* most-recently-created first.
C6_CreateInsertsAtFront ==
  (impl = "server" /\ WasCreate /\ ~HasList(StoreBefore, req.name)) =>
    /\ Store = <<newList(req.name)>> \o StoreBefore
    /\ dataFile.exists /\ JSON_parse(dataFile.raw).ok
    /\ res.status = 200 /\ res.kind = "listAdded" /\ res.name = req.name

\* C6 witness: a second list was created in front of an older one that holds
\* an item.
C6_Witness ==
  /\ impl = "server" /\ WasCreate /\ res.kind = "listAdded"
  /\ Len(Store) = 2
  /\ Store[1] = newList(req.name)
  /\ Store[2].todos # <<>>

\* C7: create(name) for a name the Store holds fails with AlreadyExists and
\* leaves what is persisted as it was.
C7_CreateDuplicateFails ==
  (WasCreate /\ HasList(StoreBefore, req.name)) =>
    /\ ErrorKind(res) = "AlreadyExists"
    /\ res.status = 400
    /\ Persisted = before
    /\ Store = StoreBefore

\* C7 witness: a duplicate create was refused on a list that holds an item.
C7_Witness ==
  /\ WasCreate /\ HasList(StoreBefore, req.name)
  /\ res.kind = "alreadyExists"
  /\ ListOf(Store, req.name).todos # <<>>

\* C8: an update whose id the list holds replaces that item where it stands:
\* same index, same count, every other item and every other list as before,
\* the stored item is the todo sent, and the message says "updated".
C8_ReplaceInPlace ==
  WasUpdateOfItem =>
    LET l == findList(StoreBefore, req.name)
        idx == findTodo(StoreBefore[l].todos, req.todo)
    IN /\ res.status = 200 /\ res.kind = "todoUpdated"
       /\ res.name = req.name /\ res.id = req.todo.id
       /\ Len(Store) = Len(StoreBefore)
       /\ Len(Store[l].todos) = Len(StoreBefore[l].todos)
       /\ Store[l].todos[idx] = req.todo
       /\ \A k \in 1..Len(Store[l].todos) :
            k # idx => Store[l].todos[k] = StoreBefore[l].todos[k]
       /\ Store = [StoreBefore EXCEPT ![l].todos[idx] = req.todo]

\* C8 witness: the second item of a list was replaced by a different value.
C8_Witness ==
  /\ WasUpdateOfItem
  /\ res.kind = "todoUpdated"
  /\ findTodo(ListOf(StoreBefore, req.name).todos, req.todo) = 2
  /\ ListOf(StoreBefore, req.name).todos[2] # req.todo
  /\ ListOf(Store, req.name).todos[2] = req.todo

\* C9 as claimed: after any successful update, added or replaced, the todo is
\* the first item of its list.
C9_UpdatedItemFirst ==
  (WasUpdate /\ res.status = 200) => ListOf(Store, req.name).todos[1] = req.todo

\* C9 as amended: after a successful update that added the todo it is the
\* first item of its list; after one that replaced an item the todo stands at
\* the index that item had, and the order of the ids is as before.
C9_AddedFirstReplacedInPlace ==
  (WasUpdate /\ res.status = 200) =>
    LET old == ListOf(StoreBefore, req.name).todos
        new == ListOf(Store, req.name).todos
    IN /\ res.kind = "todoAdded" => new[1] = req.todo
       /\ res.kind = "todoUpdated" =>
            /\ new[findTodo(old, req.todo)] = req.todo
            /\ [k \in 1..Len(new) |-> new[k].id] = [k \in 1..Len(old) |-> old[k].id]

\* C9 witness: an update replaced an item that was not the first of its list
\* and the item stayed where it was.
C9_Witness ==
  /\ WasUpdate /\ res.kind = "todoUpdated"
  /\ ListOf(Store, req.name).todos[1] # req.todo
  /\ ListOf(Store, req.name).todos[2] = req.todo

\* C10: an update whose id the list does not hold fails with
\* ResourceExhausted and changes nothing when the list holds MAX_TODO_ITEMS
\* items; otherwise it puts the todo in front of the items the list held
\* (one more item, the others in their order) and reports "added".
C10_InsertOrExhausted ==
  WasUpdateOfNewItem =>
    LET l == findList(StoreBefore, req.name)
        old == StoreBefore[l].todos
    IN IF Len(old) >= MAX_TODO_ITEMS
       THEN /\ ErrorKind(res) = "ResourceExhausted"
            /\ Persisted = before
       ELSE /\ res.status = 200 /\ res.kind = "todoAdded"
            /\ res.name = req.name /\ res.id = req.todo.id
            /\ Len(Store[l].todos) = Len(old) + 1
            /\ Store[l].todos = <<req.todo>> \o old
            /\ Store = [StoreBefore EXCEPT ![l].todos = <<req.todo>> \o old]

\* C10 witness: a new item was put in front of an item the list already held.
C10_Witness ==
  /\ WasUpdateOfNewItem
  /\ res.kind = "todoAdded"
  /\ Len(ListOf(Store, req.name).todos) = 2
  /\ ListOf(Store, req.name).todos[1] = req.todo
  /\ ListOf(Store, req.name).todos[2] = ListOf(StoreBefore, req.name).todos[1]

\* the list "a" as the invocations found it
SeedList == ListOf(before.state.value, "a")

\* two invocations have returned from adding items of different ids, both
\* new to list "a", which had room for both
TwoAddsDone(p, q) ==
  /\ p # q
  /\ pc[p] = "done" /\ pc[q] = "done"
  /\ \A o \in Procs \ {p, q} : pc[o] = "idle"
  /\ params[p].operation = "update" /\ params[q].operation = "update"
  /\ params[p].name = "a" /\ params[q].name = "a"
  /\ ~todoMissing(params[p].todo) /\ ~todoMissing(params[q].todo)
  /\ params[p].todo.id # params[q].todo.id
  /\ HasList(before.state.value, "a")
  /\ ~HasTodo(SeedList.todos, params[p].todo.id)
  /\ ~HasTodo(SeedList.todos, params[q].todo.id)
  /\ Len(SeedList.todos) + 2 <= MAX_TODO_ITEMS

\* C3: no two mutating operations are between their load and their save at
\* the same time.
C3_MutualExclusion ==
  \A p, q \in Procs : (pc[p] = "put" /\ pc[q] = "put") => p = q

\* C4: when two updates with different new ids on the same list, which has
\* room for both, have run, a read shows both items.
C4_NoLostUpdate ==
  \A p, q \in Procs :
    TwoAddsDone(p, q) =>
      /\ HasTodo(ListOf(state.value, "a").todos, params[p].todo.id)
      /\ HasTodo(ListOf(state.value, "a").todos, params[q].todo.id)

\* C5: of two creates of the same name at most one reports success.
C5_OneCreateWins ==
  \A p, q \in Procs :
    ( /\ p # q
      /\ pc[p] = "done" /\ pc[q] = "done"
      /\ params[p].operation = "create" /\ params[q].operation = "create"
      /\ params[p].name = params[q].name )
    => ~(result[p].status = 200 /\ result[q].status = 200)

\* C11: an update whose id is among the items of a list that holds
\* MAX_TODO_ITEMS items succeeds as a replacement, and the list still holds
\* MAX_TODO_ITEMS items.
C11_ReplaceAtCapacity ==
  (WasUpdateOfItem /\ Len(ListOf(StoreBefore, req.name).todos) = MAX_TODO_ITEMS) =>
    /\ res.status = 200 /\ res.kind = "todoUpdated"
    /\ Len(ListOf(Store, req.name).todos) = MAX_TODO_ITEMS
    /\ HasTodo(ListOf(Store, req.name).todos, req.todo.id)
    /\ \E k \in 1..MAX_TODO_ITEMS : ListOf(Store, req.name).todos[k] = req.todo

\* C11 witness: an item of a full list was replaced by a different value.
C11_Witness ==
  /\ WasUpdateOfItem
  /\ Len(ListOf(StoreBefore, req.name).todos) = MAX_TODO_ITEMS
  /\ res.kind = "todoUpdated"
  /\ ListOf(Store, req.name) # ListOf(StoreBefore, req.name)
  /\ Len(ListOf(Store, req.name).todos) = MAX_TODO_ITEMS

\* C12: an update that names a list the Store does not hold fails with
\* NotFound, leaves the Store as it was and does not create the list.
C12_UpdateOfMissingListNotFound ==
  (WasUpdate /\ ~HasList(StoreBefore, req.name)) =>
    /\ ErrorKind(res) = "NotFound"
    /\ Store = StoreBefore
    /\ ~HasList(Store, req.name)

\* the index of the item of an id stands before that of another id
precedes(todos, idB, idA) ==
  /\ HasTodo(todos, idB) /\ HasTodo(todos, idA)
  /\ findTodo(todos, [id |-> idB]) < findTodo(todos, [id |-> idA])

\* a successful update of todoA is followed at once by a successful update
\* of the same list with a todoB of another id
TwoUpdatesInARow ==
  /\ WasUpdate /\ res.status = 200
  /\ req'.operation = "update" /\ req'.name = req.name
  /\ ~todoMissing(req'.todo) /\ req'.todo.id # req.todo.id
  /\ res'.status = 200

\* the Store that a step leaves
StoreAfter == StoreOf([dataFile |-> dataFile', state |-> state'])

\* the items of the list of a name
todosOf(store, name) == ListOf(store, name).todos

\* C13 as claimed: after update(name, todoA) and then update(name, todoB) of
\* another id, both succeeding, todoB stands before todoA in the list.
C13_RecencyOrdering ==
  [][TwoUpdatesInARow => precedes(todosOf(StoreAfter, req.name), req'.todo.id, req.todo.id)]_vars

\* C13 as amended: the same, when the second update added todoB (the list
\* did not hold its id).
C13_RecencyOfAddedItem ==
  [][(TwoUpdatesInARow /\ res'.kind = "todoAdded")
       => precedes(todosOf(StoreAfter, req.name), req'.todo.id, req.todo.id)]_vars

\* C13 witness: an update added an item in front of a list that already held
\* two items put there by earlier updates.
C13_Witness ==
  /\ WasUpdateOfNewItem /\ res.kind = "todoAdded"
  /\ Len(ListOf(Store, req.name).todos) = 3
  /\ precedes(ListOf(Store, req.name).todos, req.todo.id,
              ListOf(StoreBefore, req.name).todos[1].id)

\* a list holds as many items as before and its item of the todo's id is
\* the todo
sameCountAndItem(old, new, todo) ==
  /\ Len(new) = Len(old)
  /\ HasTodo(new, todo.id)
  /\ new[findTodo(new, todo)] = todo

\* C14: when update(name, todo) has succeeded and the same request is made
\* again at once, the list holds as many items after the second call as after
\* the first, and its item of that id is the todo.
C14_UpsertIdempotence ==
  [][(WasUpdate /\ res.status = 200 /\ req' = req) =>
       /\ sameCountAndItem(todosOf(Store, req.name), todosOf(StoreAfter, req.name), req.todo)
       /\ res'.status = 200]_vars

\* C14 witness: an update sent the value the list already held for that id,
\* in a list of more than one item, and the list is as it was.
C14_Witness ==
  /\ WasUpdateOfItem /\ res.kind = "todoUpdated"
  /\ Len(ListOf(Store, req.name).todos) > 1
  /\ \E k \in 1..Len(ListOf(StoreBefore, req.name).todos) :
       ListOf(StoreBefore, req.name).todos[k] = req.todo
  /\ Store = StoreBefore

\* C15: delete(name) with a name succeeds and reports the deletion whether
\* or not the Store holds the list, also when nothing was ever persisted, and
\* leaves the Store without that name; so does a second delete(name).
C15_DeleteAlwaysSucceeds ==
  (req.operation = "delete" /\ ~Falsy(req.name)) =>
    /\ res.status = 200 /\ res.kind = "listDeleted" /\ res.name = req.name
    /\ ~HasList(Store, req.name)

\* C16: delete(name) removes the list of that name and nothing else: the
\* other lists remain, with their todos, in the order they had.
C16_DeleteOnlyNamed ==
  (req.operation = "delete" /\ ~Falsy(req.name)) =>
    /\ SelectSeq(Store, LAMBDA l : l.name # req.name)
         = SelectSeq(StoreBefore, LAMBDA l : l.name # req.name)
    /\ res.status = 200 => Store = SelectSeq(StoreBefore, LAMBDA l : l.name # req.name)

\* C16 witness: a list was deleted from a Store of two lists and the other
\* list, which holds items, is what remains.
C16_Witness ==
  /\ req.operation = "delete" /\ res.kind = "listDeleted"
  /\ Len(StoreBefore) = 2 /\ HasList(StoreBefore, req.name)
  /\ Len(Store) = 1 /\ Store[1].name # req.name /\ Store[1].todos # <<>>

\* C17: a read returns the whole Store in its order and leaves the Store as it
\* was.
C17_ReadReturnsStore ==
  req.operation = "read" =>
    /\ res.status = 200 /\ res.kind = "read"
    /\ res.todoList = Store
    /\ Store = StoreBefore

\* nothing was persisted when the last request arrived
FirstUse == IF impl = "server" THEN ~before.dataFile.exists ELSE ~before.state.present

\* C18: when nothing is persisted yet, a read succeeds with no todo lists and
\* a create of a name succeeds and leaves exactly that one list.
C18_FirstUseBootstrap ==
  /\ (FirstUse /\ req.operation = "read") =>
       res.status = 200 /\ res.kind = "read" /\ res.todoList = <<>>
  /\ (FirstUse /\ WasCreate) =>
       res.status = 200 /\ Store = <<newList(req.name)>>

\* the data file holds something that is no document of todo lists
Malformed(file) ==
  file.exists /\ ~(JSON_parse(file.raw).ok /\ JSON_parse(file.raw).array)

\* the data file holding the empty Store
EmptyStoreFile == [exists |-> TRUE, raw |-> JSON_stringify(<<>>)]

\* the last request is answered, and the Store is left, as the same request
\* on the empty Store is and leaves it
AsOnEmptyStore(out) ==
  /\ res = out.res
  /\ Store = readStore(out.file).v

\* C19: a request that meets malformed persisted content (text that does not
\* parse, no text, or a value that is no sequence of lists) is answered, and
\* leaves the Store, as on an empty Store.
C19_MalformedAsEmpty ==
  (impl = "server" /\ req # NoRequest /\ fault = "none" /\ Malformed(before.dataFile))
    => AsOnEmptyStore(post_todolist(fs(EmptyStoreFile, "ok"), req))

\* the last request was a create, update or delete whose save failed
SaveFailed == fault \in {"refused", "truncated", "partial"}

\* C20: a create, update or delete whose save fails returns an Unavailable
\* failure, never a success, and a load afterwards yields the Store as it was
\* before the operation.
C20_SaveFailureSurfaced ==
  SaveFailed =>
    /\ res.status # 200
    /\ ErrorKind(res) = "Unavailable"
    /\ Store = StoreBefore

\* the last request was a create, an update or a delete
WasMutation == req.operation \in {"create", "update", "delete"}

\* C23: a create, update or delete without a name, or with the empty name,
\* fails with InvalidArgument ('Missing "name" parameter') and leaves the
\* Store as it was, whatever the Store holds and whatever todo is sent.
C23_MissingNameRejected ==
  (WasMutation /\ Falsy(req.name)) =>
    /\ res.status = 400 /\ res.kind = "missingName"
    /\ ErrorKind(res) = "InvalidArgument"
    /\ Store = StoreBefore

\* C23 witness: an update with the empty name and a todo was refused while
\* the Store held a list.
C23_Witness ==
  /\ req.operation = "update" /\ req.name = "" /\ ~todoMissing(req.todo)
  /\ res.kind = "missingName"
  /\ Store # <<>>

\* the operation is none of the four
UnknownVerb(operation) ==
  ~Falsy(operation) /\ operation \notin {"create", "read", "update", "delete"}

\* C24: a request without an operation fails with InvalidArgument; a request
\* whose operation is none of the four fails with UnknownOperation ('CRUD
\* operation not found') whatever its name, absent names included; both leave
\* the Store as it was.
C24_OperationValidated ==
  /\ (res # NoResponse /\ Falsy(req.operation)) =>
       /\ ErrorKind(res) = "InvalidArgument"
       /\ Store = StoreBefore
  /\ UnknownVerb(req.operation) =>
       /\ ErrorKind(res) = "UnknownOperation" /\ res.kind = "crudNotFound"
       /\ Store = StoreBefore

\* C25: an update of a list the Store holds whose todo carries no id fails
\* with InvalidArgument and leaves the Store as it was, and no list ever
\* holds an item without an id.
C25_TodoWithoutIdRejected ==
  /\ (WasUpdateOfList /\ req.todo.id = Undefined) =>
       /\ ErrorKind(res) = "InvalidArgument"
       /\ Store = StoreBefore
  /\ \A i \in 1..Len(Store) : \A k \in 1..Len(Store[i].todos) :
       Store[i].todos[k].id # Undefined

\* C28: no list holds two items of the same id.
C28_ItemIdsUnique ==
  \A i \in 1..Len(Store) : \A j, k \in 1..Len(Store[i].todos) :
    Store[i].todos[j].id = Store[i].todos[k].id => j = k

\* C28 witness: an update sent an id that a list of two items held, and the
\* list still holds two items, of different ids.
C28_Witness ==
  /\ WasUpdateOfItem /\ res.kind = "todoUpdated"
  /\ Len(todosOf(StoreBefore, req.name)) = 2
  /\ Len(todosOf(Store, req.name)) = 2
  /\ todosOf(Store, req.name)[1].id # todosOf(Store, req.name)[2].id

\* C30: in update a missing name is reported whatever the todo, and a
\* missing todo is reported ('Todo is missing.', InvalidArgument) before the
\* list is looked up, also when the Store holds no list of that name.
C30_UpdatePrecedence ==
  /\ (req.operation = "update" /\ Falsy(req.name)) => res.kind = "missingName"
  /\ (req.operation = "update" /\ ~Falsy(req.name) /\ todoMissing(req.todo)) =>
       /\ res.status = 400 /\ res.kind = "todoMissing"
       /\ ErrorKind(res) = "InvalidArgument"
       /\ Store = StoreBefore

\* C30 witness: an update without a todo named a list that the Store, which
\* holds another list, does not hold, and was answered 'Todo is missing.'
C30_Witness ==
  /\ req.operation = "update" /\ ~Falsy(req.name) /\ todoMissing(req.todo)
  /\ ~HasList(StoreBefore, req.name) /\ StoreBefore # <<>>
  /\ res.kind = "todoMissing"

\* an invocation returns in this step
Returns(p) == pc[p] # "done" /\ pc'[p] = "done"

\* C22: a read that runs among concurrent mutations returns the Store as it
\* is persisted at the moment it loads, whole: the Store that the saves
\* committed so far have left.
C22_ReadSeesCommittedStore ==
  [][\A p \in Procs :
       (Returns(p) /\ params'[p].operation = "read") => result'[p] = ReadResponse(Store)]_vars

\* a failure of one of the kinds of the taxonomy that stand for a refusal
Refusal(r) ==
  ErrorKind(r) \in {"InvalidArgument", "AlreadyExists", "NotFound",
                    "ResourceExhausted", "UnknownOperation"}

\* C26: the persisted Store changes only in the step in which one create,
\* update or delete returns success, which is the one save of that
\* operation; an operation that returns a failure (InvalidArgument,
\* AlreadyExists, NotFound, ResourceExhausted, UnknownOperation) never
\* changes it, and no step leaves a Store between the two.
C26_AtomicOrNoOp ==
  [][/\ StoreAfter # Store =>
          \E p \in Procs :
            /\ Returns(p) /\ result'[p].status = 200
            /\ params'[p].operation \in {"create", "update", "delete"}
            /\ \A q \in Procs \ {p} : pc'[q] = pc[q]
     /\ \A p \in Procs : (Returns(p) /\ Refusal(result'[p])) => StoreAfter = Store]_vars

\* C26 witness: of two concurrent invocations one was refused with
\* ResourceExhausted and the other, a delete, succeeded and changed the Store.
C26_Witness ==
  \E p, q \in Procs :
    /\ pc[p] = "done" /\ pc[q] = "done"
    /\ result[p].kind = "maxReached"
    /\ result[q].kind = "listDeleted"
    /\ Store # StoreBefore

\* C21: when a create, update or delete is cut off before its save is
\* complete, a load afterwards yields the Store that was persisted before the
\* operation began.
C21_InterruptedSaveKeepsStore ==
  fault = "interrupted" => Store = StoreBefore

\* C27: what readStore returns after writeStore(s) is s, lists and items in
\* their order and every item with its fields; after several saves it is the
\* value of the last one.
C27_RoundTrip ==
  /\ dataFile.exists => readStore(dataFile).v = saved
  /\ res.kind = "read" => res.todoList = saved

\* C27 witness: a Store of two lists, the first of two items, was saved over
\* another one and read back.
C27_Witness ==
  /\ res.kind = "read"
  /\ Len(saved) = 2 /\ Len(saved[1].todos) = 2 /\ saved[1].todos[1] # saved[1].todos[2]
  /\ res.todoList = saved

\* C29: a create of the name that a delete has just removed succeeds and
\* leaves a list of that name without items, whatever the deleted list held,
\* and a read after a create shows the list created with todos == [].
C29_RecreatedListIsEmpty ==
  [][/\ (req.operation = "delete" /\ res.status = 200
           /\ req'.operation = "create" /\ req'.name = req.name) =>
          /\ res'.status = 200 /\ res'.kind = "listAdded"
          /\ HasList(StoreAfter, req.name)
          /\ todosOf(StoreAfter, req.name) = <<>>
     /\ (WasCreate /\ res.status = 200 /\ req'.operation = "read") =>
          /\ res'.kind = "read"
          /\ HasList(res'.todoList, req.name)
          /\ todosOf(res'.todoList, req.name) = <<>>]_vars

\* C29 witness: a read shows a list without items in front of a list that
\* holds items.
C29_Witness ==
  /\ req.operation = "read" /\ res.kind = "read"
  /\ Len(res.todoList) = 2
  /\ res.todoList[1].todos = <<>>
  /\ res.todoList[2].todos # <<>>

\* C31: a successful update(name, todo) changes only the todos of the list
\* named name: the Store holds the same lists in the same order as before,
\* and every other list holds the todos it held.
C31_UpdateFrame ==
  (WasUpdate /\ res.status = 200) =>
    /\ Len(Store) = Len(StoreBefore)
    /\ \A i \in 1..Len(Store) :
         /\ Store[i].name = StoreBefore[i].name
         /\ Store[i].name # req.name => Store[i].todos = StoreBefore[i].todos

\* C31 witness: an update changed the second of two lists while the first
\* holds items of its own.
C31_Witness ==
  /\ WasUpdate /\ res.status = 200
  /\ Len(Store) = 2 /\ Store[2].name = req.name /\ Store[1].todos # <<>>
  /\ Store[2].todos # StoreBefore[2].todos

\* every id among the old items is among the new ones, which are no fewer
keepsItems(old, new) ==
  /\ Len(new) >= Len(old)
  /\ \A i \in 1..Len(old) : HasTodo(new, old[i].id)

\* every list of old that is not the one exempted is a list of new and has
\* kept its items
keepsLists(old, new, exempted) ==
  \A n \in Names \ {exempted} :
    HasList(old, n) =>
      /\ HasList(new, n)
      /\ keepsItems(todosOf(old, n), todosOf(new, n))

\* C32: an item has no deletion of its own: a list that the Store holds is
\* still held after every request other than a delete of that list, with
\* every id it held and with no fewer items.
C32_NoItemDeletion ==
  keepsLists(StoreBefore, Store,
             IF req.operation = "delete" THEN req.name ELSE Undefined)

\* C32 witness: a full list has been refused one more item and holds the
\* items it held, next to a second list.
C32_Witness ==
  /\ WasUpdateOfList /\ res.kind = "maxReached"
  /\ Len(Store) = 2
  /\ Len(todosOf(Store, req.name)) = MAX_TODO_ITEMS
  /\ todosOf(Store, req.name) = todosOf(StoreBefore, req.name)

\* the orders in which the invocations of a set can be run one after another
Orders(D) ==
  {o \in [1..Cardinality(D) -> D] : \A i, j \in 1..Cardinality(D) : o[i] = o[j] => i = j}

RECURSIVE serial(_, _, _)
\* the rest of a serial run once the first request of the order was handled
serialAfter(out, order, rs) ==
  serial(onDisk(out.file), Tail(order), [rs EXCEPT ![order[1]] = out.res])

\* the requests of the invocations handled by server.js one after another in
\* that order, from that data file: the file left and the responses
serial(file, order, rs) ==
  IF order = <<>> THEN [file |-> file, res |-> rs]
  ELSE serialAfter(post_todolist(fs(file, "ok"), params[order[1]]), order, rs)

\* a serial run left that Store and those responses
sameOutcome(run, store, responses) ==
  /\ run.res = responses
  /\ readStore(run.file).v = store

C34_ActionEquivalentToServer ==
  /\ actionRes = res
  /\ ActionStore = ServerStore

\* the failure kinds of the taxonomy
TypedFailures ==
  {"InvalidArgument", "AlreadyExists", "NotFound", "ResourceExhausted",
   "UnknownOperation", "Unavailable"}

\* C35: every request that is not cut off is answered, whatever is
\* persisted, either with a success or with a failure of one of the kinds of
\* the taxonomy, never with the fault of an exception.
C35_EveryFailureTyped ==
  (req # NoRequest /\ fault # "interrupted") =>
    /\ res # NoResponse
    /\ res.status = 200 \/ ErrorKind(res) \in TypedFailures

\* the items stored under the keys of a list name
storedItems(keys, name) == {keys[k] : k \in {j \in ItemKeys : j[1] = name /\ keys[j] # NoItem}}

\* the items a read shows for the list of a name
shownTodos(todoList, name) == todosOf(todoList, name)

\* C36: in the per-item-key variant every stored item belongs to a list
\* whose name is among the stored names, so that a list that create(name)
\* has just added is read back without items.
C36_NoItemOutsideList ==
  /\ \A k \in ItemKeys : todoKeys[k] # NoItem => includes(defaultTodoList(state), k[1])
  /\ (req.operation = "create" /\ res.kind = "nameAdded") =>
       shownTodos(items_read(state, todoKeys).res.todoList, req.name) = <<>>

\* C37: in the per-item-key variant the todo action stores the todo under
\* its key when 0 <= todo.id < MAX_TODO_ITEMS, and otherwise stores nothing
\* and reports that the maximum is reached; a read shows for each list
\* exactly the items stored for it, and at most MAX_TODO_ITEMS of them.
C37_RangeCheckedAndReadBack ==
  [][/\ (req'.operation \in {"create", "update"} /\ ~todoMissing(req'.todo)) =>
          IF inRange(req'.todo.id)
          THEN /\ res'.kind = "todoPut"
               /\ todoKeys' = [todoKeys EXCEPT ![todoKey(req'.todo.name, req'.todo.id)] = req'.todo]
          ELSE /\ res'.kind = "maxReachedForId"
               /\ todoKeys' = todoKeys
     /\ res'.kind = "read" =>
          \A l \in 1..Len(res'.todoList) :
            /\ Len(res'.todoList[l].todos) <= MAX_TODO_ITEMS
            /\ {res'.todoList[l].todos[i] : i \in 1..Len(res'.todoList[l].todos)}
                 = storedItems(todoKeys', res'.todoList[l].name)]_vars

\* C38: once the App has loaded, after every onCreateTodoList(name) and
\* onDeleteTodoList(name) that the server has answered, the lists the App
\* shows are the lists a read of the Store returns, also when the server
\* refused the create because the name exists.
C38_UIShowsStore ==
  ~app.isLoading => app.todoList = Store

====
